---- MODULE Spec2Model ----
(***************************************************************************)
(* Brute-force open-path travelling salesman (traveling_salesman.ts):      *)
(* the array version, the generator pipeline travelingSalesman, the fused  *)
(* handRolledTravelingSalesman, and the memoizing wrapper cachedFn.        *)
(***************************************************************************)
EXTENDS Integers, Sequences, FiniteSets, TLC

(***************************************************************************)
(* Bounds of the model.                                                    *)
(***************************************************************************)
\* longest inner-destination sequence handed to an optimizer
MaxLen == 3
\* longest inner-destination sequence of the calls followed to their end
MaxLiveLen == 2
\* largest inner value of the |a - b| scenarios of the tests and benchmark
MaxVal == 4
\* number of calls made to one cachedFn wrapper
MaxCalls == 4
\* largest key passed to a cachedFn wrapper
MaxKey == 1
\* largest defined output of a function wrapped by cachedFn
MaxOut == 1
\* the point type T of the general scenarios: a two-valued type
Points == {0, 1}

(***************************************************************************)
(* JavaScript values that are not naturals, encoded as negative integers.  *)
(***************************************************************************)
\* the number Infinity (initial minDistance)
Infinity == -1
\* the number NaN
NaN == -2
\* not a value: the evaluation throws
Throws == -3
\* the value undefined (route[0] of an empty route, a missing cache value)
undefined == -4

\* a + b on numbers; a throwing operand evaluation ends the statement
Add(a, b) ==
    IF a = Throws \/ b = Throws THEN Throws
    ELSE IF a = NaN \/ b = NaN THEN NaN
    ELSE IF a = Infinity \/ b = Infinity THEN Infinity
    ELSE a + b

\* a > b on numbers: the comparison turned around
Greater(a, b) ==
    /\ a # NaN /\ b # NaN
    /\ b # Infinity
    /\ (a = Infinity \/ a > b)

\* a < b on numbers (false as soon as one side is NaN)
Less(a, b) ==
    /\ a # NaN /\ b # NaN
    /\ a # Infinity
    /\ (b = Infinity \/ a < b)

(***************************************************************************)
(* Sequence helpers.                                                       *)
(***************************************************************************)
\* [...arr.slice(0, i), ...arr.slice(i + 1)] for the 1-based position i
RemoveAt(arr, i) == SubSeq(arr, 1, i - 1) \o SubSeq(arr, i + 1, Len(arr))

\* concatenation of a sequence of sequences, in order
RECURSIVE Flatten(_)
Flatten(ss) == IF ss = <<>> THEN <<>> ELSE Head(ss) \o Flatten(Tail(ss))

\* route[k] for the 0-based index k: undefined outside the array
At(route, k) == IF k >= 0 /\ k < Len(route) THEN route[k + 1] ELSE undefined

\* multiset of the elements of a sequence, as a function value -> count
BagOf(s) ==
    [v \in {s[i] : i \in 1..Len(s)} |-> Cardinality({i \in 1..Len(s) : s[i] = v})]

(***************************************************************************)
(* PermutationGenerator.                                                   *)
(***************************************************************************)
\* getPermutations of the array version: position i of arr leads, then
\* every permutation of the rest
\* a generator that gives each ordering of the values once: a position is
\* skipped when its value stands at an earlier position
RECURSIVE getPermutationsOfValues(_, _)
getPermutationsOfValues(arr, size) ==
    IF size = 0 THEN << <<>> >>
    ELSE Flatten([i \in 1..Len(arr) |->
            LET current == arr[i]
                remaining == RemoveAt(arr, i)
                subPermutations == getPermutationsOfValues(remaining, size - 1)
            IN  IF \E h \in 1..(i - 1) : arr[h] = current THEN <<>>
                ELSE [j \in 1..Len(subPermutations) |->
                         <<current>> \o subPermutations[j]]])

RECURSIVE getPermutations(_, _)
getPermutations(arr, size) ==
    IF size = 0 THEN << <<>> >>
    ELSE Flatten([i \in 1..Len(arr) |->
            LET current == arr[i]
                remaining == RemoveAt(arr, i)
                subPermutations == getPermutations(remaining, size - 1)
            IN  [j \in 1..Len(subPermutations) |-> <<current>> \o subPermutations[j]]])

\* permutations of itertools-ts: recursive selection, one empty permutation
\* for length 0, same emission order as getPermutations
permutations(data, length) == getPermutations(data, length)

\* a selection that brings the element at position i to the front of arr
\* itself, swapping it with the first
swapLeaves(arr, i) ==
    [k \in 1..Len(arr) |-> IF k = 1 THEN arr[i] ELSE IF k = i THEN arr[1] ELSE arr[k]]

\* arr after const current = arr[i] and arr.slice(0, i), arr.slice(i + 1):
\* reads and copies, arr keeps its elements
sliceLeaves(arr, i) == arr

\* arr after getPermutations(arr, arr.length): the loop of the outer call
\* works on arr itself, from position i on; the recursive calls get the
\* fresh array remaining
RECURSIVE getPermutationsLeaves(_, _)
getPermutationsLeaves(arr, i) ==
    IF i > Len(arr) THEN arr ELSE getPermutationsLeaves(sliceLeaves(arr, i), i + 1)

\* the iterable after Array.from(iterable): the copy is what is worked on
ArrayFromLeaves(iterable) == iterable

\* data after permutations(data, length) of itertools-ts was iterated: the
\* generator works on its own pool
permutationsLeaves(data) == data

(***************************************************************************)
(* RouteAssembler and RouteScorer.                                         *)
(***************************************************************************)
\* startAndEnd with the two fixed points exchanged
startAndEndSwapped(s, e, inner) == <<e>> \o inner \o <<s>>

\* startAndEnd: yield start; yield* inner; yield end
startAndEnd(s, e, inner) == <<s>> \o inner \o <<e>>

\* single.pairwise of itertools-ts: the consecutive pairs, none below 2 elements
pairwise(route) ==
    [i \in 1..(IF Len(route) < 2 THEN 0 ELSE Len(route) - 1) |-> <<route[i], route[i + 1]>>]

\* the loop of total_distance from an accumulator: distance += computeDistance([a, b])
\* an accumulation that goes on after an evaluation that throws, leaving it out
RECURSIVE accumulateSkip(_, _, _)
accumulateSkip(distance, pairs, cd) ==
    IF pairs = <<>> THEN distance
    ELSE accumulateSkip(IF cd[Head(pairs)] = Throws THEN distance
                        ELSE Add(distance, cd[Head(pairs)]), Tail(pairs), cd)

RECURSIVE accumulate(_, _, _)
accumulate(distance, pairs, cd) ==
    IF pairs = <<>> \/ distance = Throws THEN distance
    ELSE accumulate(Add(distance, cd[Head(pairs)]), Tail(pairs), cd)

\* total_distance: the sum over the consecutive pairs, left to right, from 0
total_distance(route, cd) == accumulate(0, pairwise(route), cd)

\* toMin reducer that also replaces the carry on an equal score
toMinStepLast(carry, datum) ==
    IF carry = <<>> THEN datum
    ELSE IF ~Less(carry[1], datum[1]) THEN datum ELSE carry

\* reducer of reduce.toMin(distances, ([distance]) => distance): the first
\* datum is taken, a later one only when strictly smaller
toMinStep(carry, datum) ==
    IF carry = <<>> THEN datum
    ELSE IF Less(datum[1], carry[1]) THEN datum ELSE carry

(***************************************************************************)
(* The array version of travelingSalesman, a single eager computation.     *)
(***************************************************************************)
\* routeDistances.reduce((min, curr) => curr.distance < min.distance ? curr : min)
\* a reduction that keeps the later of two records of equal distance
RECURSIVE reduceMinLast(_, _)
reduceMinLast(min, rest) ==
    IF rest = <<>> THEN min
    ELSE reduceMinLast(IF Less(min[1], Head(rest)[1]) THEN min ELSE Head(rest), Tail(rest))

RECURSIVE reduceMin(_, _)
reduceMin(min, rest) ==
    IF rest = <<>> THEN min
    ELSE reduceMin(IF Less(Head(rest)[1], min[1]) THEN Head(rest) ELSE min, Tail(rest))

\* the array travelingSalesman: <<Throws>> when a distance evaluation
\* throws, else the route of the first minimal {distance, route}
travelingSalesmanArray(inner, s, e, cd) ==
    LET perms == getPermutations(inner, Len(inner))
        routes == [k \in 1..Len(perms) |-> <<s>> \o perms[k] \o <<e>>]
        routeDistances == [k \in 1..Len(routes) |->
                              <<total_distance(routes[k], cd), routes[k]>>]
    IN  IF \E k \in 1..Len(routeDistances) : routeDistances[k][1] = Throws
        THEN <<Throws>>
        ELSE reduceMin(Head(routeDistances), Tail(routeDistances))[2]

(***************************************************************************)
(* cachedFn: the wrapper around f and its Map.                             *)
(***************************************************************************)
\* outputs of a wrapped function: numbers from the falsy 0 on, and undefined
Outputs == (0..MaxOut) \cup {undefined}

\* cache.has(input)
cacheHas(c, input) == input \in DOMAIN c

\* cache.get(input)
cacheGet(c, input) == IF input \in DOMAIN c THEN c[input] ELSE undefined

\* a cache.set that stores nothing
cacheSetDropped(c, input, result) == c

\* a cache.set that stores undefined in place of the result
cacheSetUndefined(c, input, result) ==
    [k \in DOMAIN c \cup {input} |-> IF k = input THEN undefined ELSE c[k]]

\* cache.set(input, result)
cacheSet(c, input, result) == (input :> result) @@ c

\* a miss that stores what f gave also when f threw
cacheAfterMissStored(c, key, result) == cacheSet(c, key, result)

\* the Map after a miss: nothing is stored when f threw, since the
\* exception leaves the wrapper before cache.set
cacheAfterMiss(c, key, result) ==
    IF result = Throws THEN c ELSE cacheSet(c, key, result)

\* one call of the wrapper with the Map c and count invocations of f so
\* far, raw being what f gives for the input: <<outcome, Map, invocations>>
wrapperCall(c, count, key, raw) ==
    IF cacheHas(c, key)
    THEN <<cacheGet(c, key), c, count>>
    ELSE <<raw, cacheAfterMiss(c, key, raw), count + 1>>

\* a Map key for a pair that compares by the two values it holds
mapKeyByValue(id, pair) == (pair[1] + 4) * 100 + (pair[2] + 4)

\* the Map key of the pair instance id: an array is a key by reference
mapKey(id, pair) == id

\* the pairs of a list that are evaluated: all up to the first that throws
evaluated(pairs, cd) ==
    LET failing == {i \in 1..Len(pairs) : cd[pairs[i]] = Throws}
    IN  IF failing = {} THEN pairs
        ELSE SubSeq(pairs, 1, CHOOSE i \in failing : \A j \in failing : i <= j)

\* a cachedFn-wrapped distance function queried with a fresh pair [a, b]
\* per element of pairs, the first half of the queries before the second,
\* up to a query that throws:
\* <<Map, invocations, pair instances, outcome of the last query>> afterwards
RECURSIVE wrappedQueries(_, _, _)
wrappedQueries(st, pairs, cd) ==
    IF pairs = <<>> THEN st
    ELSE IF Len(pairs) = 1
    THEN LET pair == pairs[1]
             id == Len(st[3]) + 1
             call == wrapperCall(st[1], st[2], mapKey(id, pair), cd[pair])
         IN  <<call[2], call[3], Append(st[3], pair), call[1]>>
    ELSE LET half == Len(pairs) \div 2
             first == wrappedQueries(st, SubSeq(pairs, 1, half), cd)
         IN  IF first[4] = Throws THEN first
             ELSE wrappedQueries(first, SubSeq(pairs, half + 1, Len(pairs)), cd)

(***************************************************************************)
(* State.                                                                  *)
(***************************************************************************)
VARIABLES
    innerDestinations,  \* the caller's inner-destination array
    start,              \* the fixed first point
    end,                \* the fixed last point
    computeDistance,    \* the caller's distance function, a table pair -> outcome
    running,            \* the optimizer call in progress: "none", "ts" or "hr"
    tsStatus,           \* travelingSalesman: "ready", "running", "returned", "threw"
    tsPermutations,     \* permutationsIter of travelingSalesman, as the list it yields
    tsNext,             \* 1-based position of the next permutation toMin pulls
    tsCarry,            \* carry of toMin: <<>> (undefined) or <<distance, routeArray>>
    tsQueries,          \* pairs passed to computeDistance for the latest route scored
    tsResult,           \* the array travelingSalesman returned
    hrStatus,           \* handRolledTravelingSalesman: same statuses
    hrPermutations,     \* permutationsIter of handRolledTravelingSalesman, likewise
    hrNext,             \* 1-based position of the next permutation of the for loop
    minDistance,        \* let minDistance
    minRoute,           \* let minRoute
    hrQueries,          \* pairs passed to computeDistance in the latest iteration
    hrResult,           \* the array handRolledTravelingSalesman returned
    arrStatus,          \* array version of travelingSalesman: same statuses
    arrQueries,         \* pairs passed to computeDistance for the last route it scored
    arrResult,          \* the array it returned
    again,              \* has the caller made the same calls a second time
    firstRoutes,        \* how the first calls ended: <<status, route>> of ts, hr, array
    wrapped,            \* is computeDistance a cachedFn wrapper (tests) or bare (benchmark)
    heap,               \* the pair instances [a, b] allocated for a wrapper, in order
    f,                  \* the pure function wrapped by cachedFn, input -> output
    cache,              \* const cache = new Map(), a function on the keys it holds
    callCount,          \* number of invocations of f so far
    callsOf,            \* number of wrapper calls so far, per key
    lastInput,          \* input of the latest wrapper call
    lastOutput          \* value the latest wrapper call returned

inputVars == <<innerDestinations, start, end, computeDistance, wrapped, again, firstRoutes>>
\* what a call cannot reach: its other arguments and the caller's record
argVars == <<start, end, computeDistance, wrapped, again, firstRoutes>>
tsVars == <<tsStatus, tsPermutations, tsNext, tsCarry, tsQueries, tsResult>>
hrVars == <<hrStatus, hrPermutations, hrNext, minDistance, minRoute, hrQueries, hrResult>>
arrVars == <<arrStatus, arrQueries, arrResult>>
optVars == <<innerDestinations, start, end, computeDistance, wrapped, running,
             again, firstRoutes,
             tsStatus, tsPermutations, tsNext, tsCarry, tsQueries, tsResult,
             hrStatus, hrPermutations, hrNext, minDistance, minRoute, hrQueries, hrResult,
             arrStatus, arrQueries, arrResult>>
wrapperVars == <<cache, callCount, heap>>
cacheVars == <<f, cache, callCount, heap, callsOf, lastInput, lastOutput>>
vars == <<optVars, cacheVars>>

(***************************************************************************)
(* Inputs.                                                                 *)
(***************************************************************************)
\* every sequence over S of length at most n
SeqsUpTo(S, n) == UNION {[1..k -> S] : k \in 0..n}

\* outcomes of a distance evaluation on two points: two finite numbers and Infinity
DistVals == {1, 2, Infinity}

\* outcomes of a distance evaluation on a missing point: anything
UndefinedOutcomes == DistVals \cup {NaN, Throws}

\* the pairs with a missing element that route[0] of an empty route produces
UndefinedPairs(inner, s, e) ==
    IF inner = <<>> THEN {<<s, undefined>>, <<undefined, e>>} ELSE {}

\* |a - b| of the tests and the benchmark; NaN on a missing element
AbsDiff(pair) ==
    IF pair[1] = undefined \/ pair[2] = undefined THEN NaN
    ELSE IF pair[1] >= pair[2] THEN pair[1] - pair[2] ELSE pair[2] - pair[1]

\* the optimizers before any call
InitCalls ==
    /\ running = "none"
    /\ again = FALSE /\ firstRoutes = <<>>
    /\ tsStatus = "ready" /\ tsPermutations = <<>> /\ tsNext = 1
    /\ tsCarry = <<>> /\ tsQueries = <<>> /\ tsResult = <<>>
    /\ hrStatus = "ready" /\ hrPermutations = <<>> /\ hrNext = 1
    /\ minDistance = Infinity /\ minRoute = <<>> /\ hrQueries = <<>> /\ hrResult = <<>>
    /\ arrStatus = "ready" /\ arrQueries = <<>> /\ arrResult = <<>>

\* a wrapper cachedFn(f) right after construction, f the doubling of the tests
InitNoCache ==
    /\ f = [x \in 0..MaxKey |-> 2 * x]
    /\ cache = <<>>
    /\ heap = <<>>
    /\ callCount = 0
    /\ callsOf = [x \in 0..MaxKey |-> 0]
    /\ lastInput = undefined
    /\ lastOutput = undefined

\* any inner sequence, start and end over Points, any distance table
Init ==
    /\ innerDestinations \in SeqsUpTo(Points, MaxLen)
    /\ start \in Points
    /\ end \in Points
    /\ \E t \in [Points \X Points -> DistVals],
          u \in [UndefinedPairs(innerDestinations, start, end) -> UndefinedOutcomes] :
            computeDistance = t @@ u
    /\ wrapped = FALSE
    /\ InitCalls
    /\ InitNoCache

\* is the sequence ascending (equal neighbours allowed)
IsSorted(s) == \A i \in 1..(Len(s) - 1) : s[i] <= s[i + 1]

\* the tests' and benchmark's scenario: |a - b|, inner values sorted
\* ascending, start below and end above all of them
InitAbs ==
    /\ innerDestinations \in {s \in SeqsUpTo(1..MaxVal, MaxLen) : IsSorted(s)}
    /\ start \in 0..MaxVal
    /\ end \in 1..(MaxVal + 1)
    /\ start < end
    /\ \A i \in 1..Len(innerDestinations) :
          start < innerDestinations[i] /\ innerDestinations[i] < end
    /\ computeDistance =
          [p \in ((0..(MaxVal + 1)) \X (0..(MaxVal + 1)))
                   \cup UndefinedPairs(innerDestinations, start, end) |-> AbsDiff(p)]
    /\ wrapped = FALSE
    /\ InitCalls
    /\ InitNoCache

\* computeDistance is called on a fresh pair for each element of pairs, up
\* to the first call that throws; a wrapper keeps its Map and counts the
\* invocations of the function it wraps
Query(pairs) ==
    LET st == wrappedQueries(<<cache, callCount, heap, 0>>, pairs, computeDistance)
    IN  IF wrapped
        THEN cache' = st[1] /\ callCount' = st[2] /\ heap' = st[3]
        ELSE UNCHANGED wrapperVars

\* what the optimizers leave alone of the wrappers under test
calleeVars == <<f, callsOf, lastInput, lastOutput>>

(***************************************************************************)
(* travelingSalesman, the generator pipeline: reduce.toMin pulls one       *)
(* permutation at a time through generateRoutes and calculateDistances.    *)
(***************************************************************************)
\* the call up to reduce.toMin: the lazy pipeline is built, nothing is pulled yet
TSCall ==
    /\ running = "none"
    /\ tsStatus = "ready"
    /\ arrStatus # "ready"
    /\ running' = "ts"
    /\ tsStatus' = "running"
    /\ LET destinationsArray == innerDestinations
           destinationsCount == Len(destinationsArray)
       IN  tsPermutations' = permutations(destinationsArray, destinationsCount)
    /\ tsNext' = 1
    /\ tsCarry' = <<>>
    /\ tsQueries' = <<>>
    /\ innerDestinations' = ArrayFromLeaves(innerDestinations)
    /\ UNCHANGED <<argVars, tsResult, hrVars, arrVars, cacheVars>>

\* toMin pulls one datum: the next permutation becomes a route
\* (generateRoutes), is scored (calculateDistances) and reduced
TSPull ==
    /\ running = "ts"
    /\ tsNext <= Len(tsPermutations)
    /\ LET routeArray == startAndEnd(start, end, tsPermutations[tsNext])
           distance == total_distance(routeArray, computeDistance)
       IN  /\ tsQueries' = evaluated(pairwise(routeArray), computeDistance)
           /\ Query(pairwise(routeArray))
           /\ IF distance = Throws
              THEN /\ tsStatus' = "threw"
                   /\ running' = "none"
                   /\ UNCHANGED <<tsNext, tsCarry>>
              ELSE /\ tsCarry' = toMinStep(tsCarry, <<distance, routeArray>>)
                   /\ tsNext' = tsNext + 1
                   /\ UNCHANGED <<tsStatus, running>>
    /\ UNCHANGED <<inputVars, tsPermutations, tsResult, hrVars, arrVars, calleeVars>>

\* the pipeline is exhausted: if (!minRoute) return [start, end]; else return minRoute[1]
TSReturn ==
    /\ running = "ts"
    /\ tsNext > Len(tsPermutations)
    /\ tsResult' = IF tsCarry = <<>> THEN <<start, end>> ELSE tsCarry[2]
    /\ tsStatus' = "returned"
    /\ running' = "none"
    /\ UNCHANGED <<inputVars, tsPermutations, tsNext, tsCarry, tsQueries, hrVars, arrVars,
                   cacheVars>>

(***************************************************************************)
(* handRolledTravelingSalesman.                                            *)
(***************************************************************************)
\* the score of one permutation: total_distance(route), then
\* += computeDistance([start, route[0]]), then
\* += computeDistance([route[route.length - 1], end])
handRolledDistance(route, s, e, cd) ==
    LET inner == total_distance(route, cd)
        first == IF inner = Throws THEN Throws
                 ELSE Add(inner, cd[<<s, At(route, 0)>>])
    IN  IF first = Throws THEN Throws
        ELSE Add(first, cd[<<At(route, Len(route) - 1), e>>])

\* the pairs one iteration passes to computeDistance, in the order of the
\* calls: those of total_distance(route), then [start, route[0]], then
\* [route[route.length - 1], end]
handRolledPairs(route, s, e) ==
    pairwise(route) \o <<<<s, At(route, 0)>>, <<At(route, Len(route) - 1), e>>>>

\* the update of the running best that also fires on an equal distance
handRolledBestLast(best, distance, route) ==
    IF ~Less(best[1], distance) THEN <<distance, route>> ELSE best

\* if (distance < minDistance) { minDistance = distance; minRoute = route; }
handRolledBest(best, distance, route) ==
    IF Less(distance, best[1]) THEN <<distance, route>> ELSE best

\* let minDistance = Infinity; let minRoute = []; the permutation iterator is made
HRCall ==
    /\ running = "none"
    /\ hrStatus = "ready"
    /\ tsStatus \in {"returned", "threw"}
    /\ running' = "hr"
    /\ hrStatus' = "running"
    /\ minDistance' = Infinity
    /\ minRoute' = <<>>
    /\ LET destinationsCount == Len(innerDestinations)
       IN  hrPermutations' = permutations(innerDestinations, destinationsCount)
    /\ hrNext' = 1
    /\ hrQueries' = <<>>
    /\ innerDestinations' = permutationsLeaves(innerDestinations)
    /\ UNCHANGED <<argVars, tsVars, hrResult, arrVars, cacheVars>>

\* one iteration of for (const route of permutationsIter)
HRIter ==
    /\ running = "hr"
    /\ hrNext <= Len(hrPermutations)
    /\ LET route == hrPermutations[hrNext]
           distance == handRolledDistance(route, start, end, computeDistance)
           best == handRolledBest(<<minDistance, minRoute>>, distance, route)
       IN  /\ hrQueries' = evaluated(handRolledPairs(route, start, end), computeDistance)
           /\ Query(handRolledPairs(route, start, end))
           /\ IF distance = Throws
              THEN /\ hrStatus' = "threw"
                   /\ running' = "none"
                   /\ UNCHANGED <<hrNext, minDistance, minRoute>>
              ELSE /\ minDistance' = best[1]
                   /\ minRoute' = best[2]
                   /\ hrNext' = hrNext + 1
                   /\ UNCHANGED <<hrStatus, running>>
    /\ UNCHANGED <<inputVars, tsVars, hrPermutations, hrResult, arrVars, calleeVars>>

\* the loop is over: return [start, ...minRoute, end]
HRReturn ==
    /\ running = "hr"
    /\ hrNext > Len(hrPermutations)
    /\ hrResult' = <<start>> \o minRoute \o <<end>>
    /\ hrStatus' = "returned"
    /\ running' = "none"
    /\ UNCHANGED <<inputVars, tsVars, hrPermutations, hrNext, minDistance, minRoute,
                   hrQueries, arrVars, cacheVars>>

(***************************************************************************)
(* The array version of travelingSalesman, called as a whole. The caller   *)
(* runs the three optimizers on the same arguments one after the other:    *)
(* the array version, travelingSalesman, handRolledTravelingSalesman.      *)
(***************************************************************************)
\* routes.map scores the routes in order: the last route it reaches is the
\* first whose scoring throws, or the last one
lastScored(routes, cd) ==
    LET failing == {k \in 1..Len(routes) : total_distance(routes[k], cd) = Throws}
    IN  IF failing = {} THEN routes[Len(routes)]
        ELSE routes[CHOOSE k \in failing : \A j \in failing : k <= j]

\* the pairs of all routes in the order routes.map reaches them
allPairs(routes) == Flatten([k \in 1..Len(routes) |-> pairwise(routes[k])])

\* the routes of the array version, in the order routes.map reaches them
arrayRoutes(inner, s, e) ==
    LET perms == getPermutations(inner, Len(inner))
    IN  [k \in 1..Len(perms) |-> <<s>> \o perms[k] \o <<e>>]

\* the pairs evaluated for the last route the array version scores
arrayLastQueries(inner, s, e, cd) ==
    evaluated(pairwise(lastScored(arrayRoutes(inner, s, e), cd)), cd)

ArrCall ==
    /\ running = "none"
    /\ arrStatus = "ready"
    /\ arrQueries' = arrayLastQueries(innerDestinations, start, end, computeDistance)
    /\ Query(allPairs(arrayRoutes(innerDestinations, start, end)))
    /\ LET result == travelingSalesmanArray(innerDestinations, start, end, computeDistance)
       IN  IF result = <<Throws>>
           THEN arrStatus' = "threw" /\ UNCHANGED arrResult
           ELSE arrStatus' = "returned" /\ arrResult' = result
    /\ innerDestinations' = getPermutationsLeaves(innerDestinations, 1)
    /\ UNCHANGED <<argVars, running, tsVars, hrVars, calleeVars>>

Next ==
    \/ TSCall
    \/ TSPull
    \/ TSReturn
    \/ HRCall
    \/ HRIter
    \/ HRReturn
    \/ ArrCall

\* the optimizers on any input over Points with any distance table
Spec == Init /\ [][Next]_vars

\* the |a - b| scenarios on inner sequences of up to MaxLiveLen values
InitLive ==
    /\ innerDestinations \in {s \in SeqsUpTo(1..MaxVal, MaxLiveLen) : IsSorted(s)}
    /\ start \in 0..MaxVal
    /\ end \in 1..(MaxVal + 1)
    /\ start < end
    /\ \A i \in 1..Len(innerDestinations) :
          start < innerDestinations[i] /\ innerDestinations[i] < end
    /\ computeDistance =
          [p \in ((0..(MaxVal + 1)) \X (0..(MaxVal + 1)))
                   \cup UndefinedPairs(innerDestinations, start, end) |-> AbsDiff(p)]
    /\ wrapped = FALSE
    /\ InitCalls
    /\ InitNoCache

\* a call runs to completion on its caller's thread: once made, the
\* pipeline and the loop take every step they can; nothing makes a caller
\* call, and the array version is one step
SpecLive ==
    /\ InitLive
    /\ [][Next]_vars
    /\ WF_vars(TSPull \/ TSReturn)
    /\ WF_vars(HRIter \/ HRReturn)

\* the optimizers on the sorted |a - b| scenarios
SpecAbs == InitAbs /\ [][Next]_vars

\* the caller, once the three calls have ended, notes how they ended and
\* makes them again with the same arguments: the array it passed, as it is
\* now, the same start, end and distance function
CallAgain ==
    /\ ~again
    /\ running = "none"
    /\ tsStatus \in {"returned", "threw"}
    /\ hrStatus \in {"returned", "threw"}
    /\ arrStatus \in {"returned", "threw"}
    /\ again' = TRUE
    /\ firstRoutes' = <<<<tsStatus, tsResult>>, <<hrStatus, hrResult>>,
                        <<arrStatus, arrResult>>>>
    /\ tsStatus' = "ready" /\ tsPermutations' = <<>> /\ tsNext' = 1
    /\ tsCarry' = <<>> /\ tsQueries' = <<>> /\ tsResult' = <<>>
    /\ hrStatus' = "ready" /\ hrPermutations' = <<>> /\ hrNext' = 1
    /\ minDistance' = Infinity /\ minRoute' = <<>> /\ hrQueries' = <<>> /\ hrResult' = <<>>
    /\ arrStatus' = "ready" /\ arrQueries' = <<>> /\ arrResult' = <<>>
    /\ UNCHANGED <<innerDestinations, start, end, computeDistance, wrapped, running,
                   cacheVars>>

NextAgain ==
    \/ Next
    \/ CallAgain

\* the optimizers called twice over on any input over Points
SpecAgain == Init /\ [][NextAgain]_vars

\* the scenarios of the tests as the tests run them: computeDistanceRef is
\* cachedFn of |a - b|, so every query goes through the wrapper and its Map
InitRef ==
    /\ innerDestinations \in {s \in SeqsUpTo(1..MaxVal, MaxLen) : IsSorted(s)}
    /\ start \in 0..MaxVal
    /\ end \in 1..(MaxVal + 1)
    /\ start < end
    /\ \A i \in 1..Len(innerDestinations) :
          start < innerDestinations[i] /\ innerDestinations[i] < end
    /\ computeDistance =
          [p \in ((0..(MaxVal + 1)) \X (0..(MaxVal + 1)))
                   \cup UndefinedPairs(innerDestinations, start, end) |-> AbsDiff(p)]
    /\ wrapped = TRUE
    /\ InitCalls
    /\ InitNoCache

\* the optimizers with a cachedFn-wrapped distance function
SpecRef == InitRef /\ [][Next]_vars

\* outcomes of a distance function that throws on some pairs
FailVals == {1, 2, Throws}

InitFail ==
    /\ innerDestinations \in SeqsUpTo(Points, MaxLen)
    /\ start \in Points
    /\ end \in Points
    /\ \E t \in [Points \X Points -> FailVals] :
          \E u \in [UndefinedPairs(innerDestinations, start, end) -> UndefinedOutcomes] :
            computeDistance = t @@ u
    /\ wrapped = FALSE
    /\ InitCalls
    /\ InitNoCache

\* the optimizers with a distance function that can fail
SpecFail == InitFail /\ [][Next]_vars

(***************************************************************************)
(* cachedFn: wrappers under test.                                          *)
(***************************************************************************)
\* a new wrapper cachedFn(f) for any pure f from keys to outputs
InitCache ==
    /\ f \in [0..MaxKey -> Outputs]
    /\ cache = <<>>
    /\ heap = <<>>
    /\ callCount = 0
    /\ callsOf = [x \in 0..MaxKey |-> 0]
    /\ lastInput = undefined
    /\ lastOutput = undefined
    /\ innerDestinations = <<>> /\ start = 0 /\ end = 0 /\ computeDistance = <<>>
    /\ wrapped = FALSE
    /\ InitCalls

\* one call of the wrapper: a hit returns cache.get(input), a miss invokes
\* f, stores the result and returns it
CachedCall ==
    /\ \E input \in 0..MaxKey :
          /\ callsOf[input] < MaxCalls
          /\ callsOf' = [callsOf EXCEPT ![input] = @ + 1]
          /\ lastInput' = input
          /\ LET call == wrapperCall(cache, callCount, input, f[input])
             IN  /\ lastOutput' = call[1]
                 /\ cache' = call[2]
                 /\ callCount' = call[3]
    /\ UNCHANGED <<f, heap, optVars>>

NextCache == CachedCall

\* calls to one wrapper cachedFn(f)
SpecCache == InitCache /\ [][NextCache]_vars

\* a new wrapper cachedFn(f) for an f that throws on some keys
InitCacheFail ==
    /\ f \in [0..MaxKey -> Outputs \cup {Throws}]
    /\ cache = <<>>
    /\ heap = <<>>
    /\ callCount = 0
    /\ callsOf = [x \in 0..MaxKey |-> 0]
    /\ lastInput = undefined
    /\ lastOutput = undefined
    /\ innerDestinations = <<>> /\ start = 0 /\ end = 0 /\ computeDistance = <<>>
    /\ wrapped = FALSE
    /\ InitCalls

\* calls to one wrapper cachedFn(f) of an f that can fail
SpecCacheFail == InitCacheFail /\ [][NextCache]_vars

(***************************************************************************)
(* Reference definitions for the properties.                               *)
(***************************************************************************)
\* every route [start] + p + [end], p an ordering of the inner positions
AllRoutes ==
    LET n == Len(innerDestinations)
    IN  {<<start>> \o [i \in 1..n |-> innerDestinations[sigma[i]]] \o <<end>> :
            sigma \in Permutations(1..n)}

\* the least total distance over AllRoutes
MinTotal ==
    LET totals == {total_distance(r, computeDistance) : r \in AllRoutes}
    IN  CHOOSE m \in totals : \A x \in totals : ~Less(x, m)

\* the elements at the 0-based positions 1..n of a returned route
Middle(route) == [i \in 1..Len(innerDestinations) |-> At(route, i)]

\* the optimizer calls that have returned a route, as <<name, route>>
Returned ==
    (IF tsStatus = "returned" THEN {<<"ts", tsResult>>} ELSE {})
      \cup (IF arrStatus = "returned" THEN {<<"arr", arrResult>>} ELSE {})
      \cup (IF hrStatus = "returned" THEN {<<"hr", hrResult>>} ELSE {})

\* the optimizer calls that have ended, as <<name, status, route>>
Ended ==
    {c \in {<<"ts", tsStatus, tsResult>>, <<"arr", arrStatus, arrResult>>,
            <<"hr", hrStatus, hrResult>>} : c[2] \in {"returned", "threw"}}

(***************************************************************************)
(* Properties.                                                             *)
(***************************************************************************)
\* C1: the route each optimizer returns has the least total distance of
\* all n! routes [start] + p + [end].
C1_ReturnedRouteIsMinimal ==
    \A c \in Returned : total_distance(c[2], computeDistance) = MinTotal

\* C2: the routes travelingSalesman and handRolledTravelingSalesman return
\* for the same input have the same total distance.
C2_SameTotalDistance ==
    (tsStatus = "returned" /\ hrStatus = "returned")
        => total_distance(tsResult, computeDistance)
             = total_distance(hrResult, computeDistance)

\* C3: handRolledTravelingSalesman returns the same route, element by
\* element, as travelingSalesman on the same input.
C3_SameRoute ==
    (tsStatus = "returned" /\ hrStatus = "returned") => hrResult = tsResult

\* C4: the route an optimizer returns has length n + 2.
C4_LengthNPlus2 ==
    \A c \in Returned : Len(c[2]) = Len(innerDestinations) + 2

\* C5: the middle n elements of a returned route are, as a multiset, the
\* inner destinations.
C5_MiddleIsInnerBag ==
    \A c \in Returned : BagOf(Middle(c[2])) = BagOf(innerDestinations)

\* C6: a returned route begins with start and finishes with end.
C6_StartFirstEndLast ==
    \A c \in Returned :
        /\ Len(c[2]) >= 2
        /\ c[2][1] = start
        /\ c[2][Len(c[2])] = end

\* C6 witness: both fused and pipeline optimizer have returned a route for
\* two or more inner destinations and distinct start and end.
C6_Witness ==
    /\ tsStatus = "returned" /\ hrStatus = "returned" /\ arrStatus = "returned"
    /\ Len(innerDestinations) >= 2
    /\ start # end

\* C7: the number of invocations of f equals the number of distinct keys
\* passed to the wrapper so far.
C7_OneInvocationPerKey ==
    callCount = Cardinality({k \in 0..MaxKey : callsOf[k] > 0})

\* C7 witness: one key was passed three times and a second key once, and f
\* was invoked twice.
C7_Witness ==
    /\ \E k \in 0..MaxKey : callsOf[k] >= 3
    /\ Cardinality({k \in 0..MaxKey : callsOf[k] > 0}) = 2
    /\ callCount = 2

\* C8: every call wrapper(x) returns f(x), from the cache or computed.
C8_WrapperReturnsF ==
    lastInput # undefined => lastOutput = f[lastInput]

\* C8 witness: a call was served from the cache for a key whose value is
\* undefined, while another key has a defined value.
C8_Witness ==
    /\ lastInput # undefined
    /\ callsOf[lastInput] >= 2
    /\ f[lastInput] = undefined
    /\ lastOutput = undefined
    /\ \E k \in 0..MaxKey : f[k] = 0 /\ callsOf[k] >= 2

\* C9: with no inner destination every optimizer call returns exactly
\* [start, end], after considering exactly one candidate.
C9_EmptyInnerReturnsStartEnd ==
    innerDestinations = <<>> =>
        /\ \A c \in Ended : c[2] = "returned" /\ c[3] = <<start, end>>
        /\ tsStatus # "ready" => Len(tsPermutations) = 1
        /\ hrStatus # "ready" => Len(hrPermutations) = 1

\* C10: for |a - b|, sorted inner values, start below and end above them,
\* every optimizer returns start, the inner values ascending, end.
C10_AscendingRoute ==
    \A c \in Returned : c[2] = <<start>> \o innerDestinations \o <<end>>

\* C10 witness: the three optimizers have returned for three or more
\* distinct inner values.
C10_Witness ==
    /\ tsStatus = "returned" /\ hrStatus = "returned" /\ arrStatus = "returned"
    /\ Len(innerDestinations) >= 3
    /\ \A i \in 1..(Len(innerDestinations) - 1) :
          innerDestinations[i] < innerDestinations[i + 1]

\* the candidate routes a list of permutations gives, in generation order
RoutesOf(perms) == [k \in 1..Len(perms) |-> startAndEnd(start, end, perms[k])]

\* route is the first of routes[1..upto] whose total is the least of them:
\* strictly smaller than every earlier total, not beaten by a later one
FirstMinimal(routes, upto, route) ==
    \E k \in 1..upto :
        /\ routes[k] = route
        /\ \A j \in 1..(k - 1) :
              Less(total_distance(routes[k], computeDistance),
                   total_distance(routes[j], computeDistance))
        /\ \A j \in (k + 1)..upto :
              ~Less(total_distance(routes[j], computeDistance),
                    total_distance(routes[k], computeDistance))

\* C11: on ties travelingSalesman returns the first minimum in generation
\* order: after each datum the carry of the reduction is the first route of
\* those pulled so far with the least total, so it was replaced only by a
\* strictly smaller one, and both versions return that route of all n!
C11_FirstMinimumWins ==
    /\ (tsStatus = "running" /\ tsCarry # <<>>) =>
          /\ FirstMinimal(RoutesOf(tsPermutations), tsNext - 1, tsCarry[2])
          /\ tsCarry[1] = total_distance(tsCarry[2], computeDistance)
    /\ tsStatus = "returned" =>
          FirstMinimal(RoutesOf(tsPermutations), Len(tsPermutations), tsResult)
    /\ (arrStatus = "returned" /\ tsStatus = "ready") =>
          LET perms == getPermutations(innerDestinations, Len(innerDestinations))
          IN  FirstMinimal(RoutesOf(perms), Len(perms), arrResult)

\* both versions returned the earlier of two different routes tied at the minimum
C11_Witness ==
    /\ tsStatus = "returned" /\ arrStatus = "returned"
    /\ arrResult = tsResult
    /\ LET routes == RoutesOf(tsPermutations)
       IN  \E j, k \in 1..Len(routes) :
              /\ j < k
              /\ routes[j] = tsResult
              /\ routes[k] # routes[j]
              /\ total_distance(routes[k], computeDistance)
                    = total_distance(routes[j], computeDistance)

\* a call that threw stays ended: no route, no further evaluation, no retry
C12_EndedByFailure ==
    /\ tsStatus = "threw" => UNCHANGED <<tsStatus, tsQueries, tsNext, tsCarry, tsResult>>
    /\ hrStatus = "threw" =>
          UNCHANGED <<hrStatus, hrQueries, hrNext, minDistance, minRoute, hrResult>>
    /\ arrStatus = "threw" => UNCHANGED <<arrStatus, arrQueries, arrResult>>

\* a failing evaluation among queries ends the call: it is the last
\* evaluation, the call threw and returned no route; a call that threw has one
FailureEnds(status, queries, result) ==
    /\ \A i \in 1..Len(queries) :
          computeDistance[queries[i]] = Throws =>
             i = Len(queries) /\ status = "threw" /\ result = <<>>
    /\ status = "threw" =>
          queries # <<>> /\ computeDistance[queries[Len(queries)]] = Throws

\* C12: when the distance function fails on an evaluation, the failure
\* ends the call of either optimizer: the call throws, returns no route,
\* evaluates no further distance and is not retried
C12_FailurePropagates ==
    /\ [](/\ FailureEnds(tsStatus, tsQueries, tsResult)
          /\ FailureEnds(hrStatus, hrQueries, hrResult)
          /\ FailureEnds(arrStatus, arrQueries, arrResult))
    /\ [][C12_EndedByFailure]_vars

\* each optimizer threw, the pipeline and the loop after scoring a route
\* and after evaluations of the failing route that succeeded
C12_Witness ==
    /\ tsStatus = "threw" /\ hrStatus = "threw" /\ arrStatus = "threw"
    /\ tsNext > 1 /\ hrNext > 1
    /\ Len(tsQueries) > 1 /\ Len(hrQueries) > 1
    /\ tsResult = <<>> /\ hrResult = <<>> /\ arrResult = <<>>

RECURSIVE Factorial(_)
Factorial(n) == IF n = 0 THEN 1 ELSE n * Factorial(n - 1)

\* the positions 1..n in order
Positions(n) == [i \in 1..n |-> i]

\* perms is the orderings of the positions of arr, each one exactly once
\* (n! entries that make up all n! bijections), and one empty ordering for
\* an empty arr
EachOrderingOnce(arr, perms) ==
    LET n == Len(arr)
        byPosition == getPermutations(Positions(n), n)
    IN  /\ Len(perms) = Factorial(n)
        /\ Len(byPosition) = Factorial(n)
        /\ n = 0 => perms = << <<>> >>
        /\ n > 0 => {byPosition[k] : k \in 1..Len(byPosition)} = Permutations(1..n)
        /\ \A k \in 1..Len(perms) :
              perms[k] = [i \in 1..n |-> arr[byPosition[k][i]]]

\* C13: the permutation generator gives exactly n! orderings of the inner
\* destinations, every ordering of the positions exactly once whatever the
\* values at them, and exactly one empty ordering when n = 0
C13_AllOrderingsOnce ==
    (tsStatus = "running" /\ tsNext = 1) =>
        /\ EachOrderingOnce(innerDestinations,
                            getPermutations(innerDestinations, Len(innerDestinations)))
        /\ EachOrderingOnce(innerDestinations, tsPermutations)

\* the orderings of a longest sequence that holds one value at two positions
C13_Witness ==
    /\ tsStatus = "running" /\ tsNext = 1
    /\ Len(innerDestinations) = MaxLen
    /\ innerDestinations[1] = innerDestinations[2]
    /\ Len(tsPermutations) = Factorial(MaxLen)
    /\ tsPermutations[1] = tsPermutations[Factorial(MaxLen - 1) + 1]

\* the distance queries of the three calls on an inner sequence of length n:
\* n + 1 per route, and the two calls of the hand rolled loop for n = 0
QueriesOfRun(n) == IF n = 0 THEN 4 ELSE 3 * Factorial(n) * (n + 1)

\* C14: the Map of cachedFn keys a pair by its identity: every pair
\* instance an optimizer passed has its own entry holding the distance of
\* its two values, equal pairs included, and the wrapped function was
\* invoked once per query, which is n + 1 times per route scored
C14_IdentityKeys ==
    wrapped =>
        /\ callCount = Len(heap)
        /\ DOMAIN cache = 1..Len(heap)
        /\ \A id \in 1..Len(heap) : cache[id] = computeDistance[heap[id]]
        /\ (tsStatus = "returned" /\ hrStatus = "returned" /\ arrStatus = "returned") =>
              callCount = QueriesOfRun(Len(innerDestinations))

\* two instances of one pair were passed, each invoked the function and
\* each has its entry
C14_Witness ==
    /\ wrapped
    /\ hrStatus = "returned"
    /\ \E i, j \in 1..Len(heap) :
          /\ i < j
          /\ heap[i] = heap[j]
          /\ {i, j} \subseteq DOMAIN cache
    /\ callCount = Len(heap)
    /\ Len(innerDestinations) = MaxLen

\* the score the hand rolled loop gives the k-th permutation
hrScore(k) == handRolledDistance(hrPermutations[k], start, end, computeDistance)

\* C15: after each iteration of the hand rolled loop, minDistance is the
\* least score of the permutations processed so far and minRoute is the
\* first of them with that score (no earlier one reaches it, no later one
\* is strictly below it)
C15_LoopInvariant ==
    (hrStatus = "running" /\ hrNext > 1) =>
        \E k \in 1..(hrNext - 1) :
            /\ minRoute = hrPermutations[k]
            /\ minDistance = hrScore(k)
            /\ \A j \in 1..(k - 1) : Less(hrScore(k), hrScore(j))
            /\ \A j \in (k + 1)..(hrNext - 1) : ~Less(hrScore(j), hrScore(k))

\* C16: both optimizers evaluate the distances of a candidate route in the
\* same left-to-right order: (start, first inner) first, the inner pairs in
\* order, (last inner, end) last. Stated for the latest route each has
\* scored in full, with at least one inner destination
C16_LeftToRightOrder ==
    Len(innerDestinations) >= 1 =>
        /\ (tsStatus \in {"running", "returned"} /\ tsNext > 1) =>
              tsQueries = pairwise(startAndEnd(start, end, tsPermutations[tsNext - 1]))
        /\ (hrStatus \in {"running", "returned"} /\ hrNext > 1) =>
              hrQueries = pairwise(startAndEnd(start, end, hrPermutations[hrNext - 1]))
        /\ (arrStatus = "returned" /\ tsStatus # "ready") =>
              arrQueries = pairwise(startAndEnd(start, end,
                                                tsPermutations[Len(tsPermutations)]))

\* the distance function returns on every pair
AlwaysReturns == \A p \in DOMAIN computeDistance : computeDistance[p] # Throws

\* C17: with a distance function that always returns, a call of either
\* optimizer, once made, terminates by returning, having scored exactly n!
\* candidate routes (every route of the array version, which is one step)
C17_Terminates ==
    /\ (AlwaysReturns /\ tsStatus = "running") ~>
          (tsStatus = "returned" /\ tsNext - 1 = Factorial(Len(innerDestinations)))
    /\ (AlwaysReturns /\ hrStatus = "running") ~>
          (hrStatus = "returned" /\ hrNext - 1 = Factorial(Len(innerDestinations)))
    /\ []((AlwaysReturns /\ arrStatus # "ready") =>
            /\ arrStatus = "returned"
            /\ (tsStatus = "ready" =>
                  Len(arrayRoutes(innerDestinations, start, end))
                     = Factorial(Len(innerDestinations))))

\* the calls on a longest inner sequence returned after MaxLiveLen! routes each
C17_Witness ==
    /\ AlwaysReturns
    /\ tsStatus = "returned" /\ hrStatus = "returned" /\ arrStatus = "returned"
    /\ Len(innerDestinations) = MaxLiveLen
    /\ tsNext = Factorial(MaxLiveLen) + 1
    /\ hrNext = Factorial(MaxLiveLen) + 1

\* the position of the permutation a call scored last: the one before next
\* after an iteration that completed, the one at next when its scoring threw
LastScoredAt(status, next) == IF status = "threw" THEN next ELSE next - 1

\* every pair of queries is a pair of adjacent elements of the candidate
\* route around the permutation p, holding only start, end and inner values
OnlyRoutePairs(queries, p) ==
    LET route == startAndEnd(start, end, p)
        known == {start, end} \cup {innerDestinations[i] : i \in 1..Len(innerDestinations)}
    IN  \A i \in 1..Len(queries) :
            /\ \E j \in 1..(Len(route) - 1) : queries[i] = <<route[j], route[j + 1]>>
            /\ queries[i][1] \in known
            /\ queries[i][2] \in known

\* C18: every pair passed to the distance function is (route[i], route[i+1])
\* of the candidate route [start] + p + [end] being scored, in that
\* direction, and holds no value other than start, end and the inner
\* destinations, also when there are no inner destinations
C18_OnlyRoutePairsQueried ==
    /\ tsQueries # <<>> =>
          OnlyRoutePairs(tsQueries, tsPermutations[LastScoredAt(tsStatus, tsNext)])
    /\ hrQueries # <<>> =>
          OnlyRoutePairs(hrQueries, hrPermutations[LastScoredAt(hrStatus, hrNext)])

\* C19: in the hand rolled loop on n >= 1 inner destinations the first
\* permutation replaces the initial best whatever the distance function
\* gives, so after any iteration, and at the loop's end, minRoute is one of
\* the enumerated permutations, of length n, never the initial empty array
C19_InitialBestReplaced ==
    (Len(innerDestinations) >= 1 /\ hrStatus \in {"running", "returned"} /\ hrNext > 1) =>
        /\ \E k \in 1..(hrNext - 1) : minRoute = hrPermutations[k]
        /\ Len(minRoute) = Len(innerDestinations)
        /\ hrStatus = "returned" => Len(hrResult) = Len(innerDestinations) + 2

\* a call of the wrapper with an input on which f throws
FailingCall == callsOf' # callsOf /\ f[lastInput'] = Throws

\* C20: when the function wrapped by cachedFn fails for an input, the call
\* fails too and leaves the Map as it was, so every call with that input,
\* later ones included, invokes the function again
C20_FailureNotCached ==
    [][FailingCall =>
          /\ lastOutput' = Throws
          /\ cache' = cache
          /\ callCount' = callCount + 1]_vars

\* an input failed twice in a row after another input was stored: the
\* function was invoked both times and the input has no entry
C20_Witness ==
    /\ lastInput \in DOMAIN f
    /\ f[lastInput] = Throws
    /\ callsOf[lastInput] >= 2
    /\ lastOutput = Throws
    /\ lastInput \notin DOMAIN cache
    /\ cache # <<>>
    /\ callCount >= 3

\* a call made again ended as the first one did, with the same route
SameAsFirst(first, status, route) ==
    status \in {"returned", "threw"} => (status = first[1] /\ route = first[2])

\* C21: no step of an optimizer changes the caller's inner-destination
\* array, which holds the same elements in the same order after a call as
\* before it, and the same calls made a second time with the same
\* arguments return the same routes
C21_InnerUntouchedSameRoute ==
    /\ [][innerDestinations' = innerDestinations]_vars
    /\ [](again =>
            /\ SameAsFirst(firstRoutes[1], tsStatus, tsResult)
            /\ SameAsFirst(firstRoutes[2], hrStatus, hrResult)
            /\ SameAsFirst(firstRoutes[3], arrStatus, arrResult))

\* the second calls on a longest inner sequence of different values, with
\* routes tied at the minimum, returned what the first calls returned
C21_Witness ==
    /\ again
    /\ tsStatus = "returned" /\ hrStatus = "returned" /\ arrStatus = "returned"
    /\ firstRoutes = <<<<"returned", tsResult>>, <<"returned", hrResult>>,
                       <<"returned", arrResult>>>>
    /\ Len(innerDestinations) = MaxLen
    /\ innerDestinations[1] # innerDestinations[MaxLen]
    /\ Len(tsResult) = MaxLen + 2
    /\ \E k \in 2..Len(tsPermutations) :
          /\ tsPermutations[k] # tsPermutations[1]
          /\ total_distance(startAndEnd(start, end, tsPermutations[k]), computeDistance)
                = total_distance(tsResult, computeDistance)

====
